---- MODULE Spec2Model ----
(***************************************************************************)
(* Inventory simulation engine: run_simulation of src/main.py (lines       *)
(* 44-75) as a state machine.  One action per statement group of the day   *)
(* loop, sequenced by pc in the order the code executes them.              *)
(*                                                                         *)
(* Quantities are whole units.  The parameters of a run are chosen in Init *)
(* and never change.  avg_daily_demand and demand_std are the module-level *)
(* globals the function reads (lines 23, 26); avg_daily_demand starts at 1 *)
(* (the sidebar never yields less than 10), demand_std at 0.               *)
(***************************************************************************)
EXTENDS Integers, Sequences, FiniteSets, TLC

\* ---- bounds of the model ----
MaxDays == 4
MaxStock == 2
MaxReorderPoint == 2
MaxOrderQuantity == 2
MaxLeadTime == 3
MaxAvgDemand == 2
MaxDemandStd == 1

VARIABLES
    days, initial_stock, reorder_point, order_quantity, lead_time,  \* arguments
    avg_daily_demand, demand_std,                                   \* globals read
    pc,                  \* position in run_simulation
    day,                 \* position of the range(days) iterator
    demand,              \* local: demand of the current day (0 before the first draw)
    inventory, on_order, days_until_delivery, stockouts, inventory_levels,
    order_day,           \* history: day of the latest order placement (-1: none)
    service_level,       \* global (line 25), in percent
    rop                  \* global (line 79), in 1/100000 of a unit

params == <<days, initial_stock, reorder_point, order_quantity, lead_time,
            avg_daily_demand, demand_std>>
vars == <<days, initial_stock, reorder_point, order_quantity, lead_time,
          avg_daily_demand, demand_std, pc, day, demand, inventory, on_order,
          days_until_delivery, stockouts, inventory_levels, order_day,
          service_level, rop>>
policy == <<service_level, rop>>

\* builtin max of two numbers (line 53)
max(a, b) == IF a >= b THEN a ELSE b

\* mutant: the lower bound is not clamped to 1
DemandLow_Unclamped(avg, std) == avg - 2 * std

\* mutant: the lower bound is clamped to 0 instead of 1
DemandLow_ClampZero(avg, std) == max(0, avg - 2 * std)

\* lower argument of random.randint (line 53)
DemandLow(avg, std) == max(1, avg - 2 * std)

\* mutant: upper bound one too large (an exclusive bound passed to randint)
DemandHigh_PlusOne(avg, std) == avg + 2 * std + 1

\* upper argument of random.randint (line 54)
DemandHigh(avg, std) == avg + 2 * std

\* random.randint(a, b): any integer N with a <= N <= b (line 52)
randint(a, b) == a .. b

\* mutant: the order is taken in when the countdown has run out
DeliveryDue_Zero(dud) == dud = 0

\* mutant: the order is taken in one day earlier
DeliveryDue_Early(dud) == dud = 2

\* line 57: the condition of the delivery check
DeliveryDue(dud) == dud = 1

\* mutant: strict comparison
CanFulfil_Strict(inv, d) == inv > d

\* line 61: the demand can be served from stock
CanFulfil(inv, d) == inv >= d

\* mutant: strict comparison with the reorder point
ShouldReorder_Strict(inv, rp, oo) == inv < rp /\ oo = 0

\* mutant: comparison with the reorder point reversed
ShouldReorder_Reversed(inv, rp, oo) == inv >= rp /\ oo = 0

\* mutant: the guard on the outstanding order is missing
ShouldReorder_NoGuard(inv, rp, oo) == inv <= rp

\* line 67: the condition under which a new order is placed
ShouldReorder(inv, rp, oo) == inv <= rp /\ oo = 0

\* lines 45-49: state after the function's prologue, for every argument tuple
Init ==
    /\ days \in 0 .. MaxDays
    /\ initial_stock \in 0 .. MaxStock
    /\ reorder_point \in 0 .. MaxReorderPoint
    /\ order_quantity \in 0 .. MaxOrderQuantity
    /\ lead_time \in 1 .. MaxLeadTime
    /\ avg_daily_demand \in 1 .. MaxAvgDemand
    /\ demand_std \in 0 .. MaxDemandStd
    /\ pc = "loop"
    /\ day = 0
    /\ demand = 0
    /\ inventory = initial_stock
    /\ on_order = 0
    /\ days_until_delivery = 0
    /\ stockouts = 0
    /\ inventory_levels = << >>
    /\ order_day = -1
    /\ service_level = 95
    /\ rop = 0

\* mutant: the day starts with the delivery check, no demand is drawn
NextDay_DeliverFirst ==
    /\ pc = "loop"
    /\ day < days
    /\ pc' = "deliver"
    /\ UNCHANGED <<params, policy, day, demand, inventory, on_order,
                   days_until_delivery, stockouts, inventory_levels, order_day>>

\* line 51: the iterator yields the next day
NextDay ==
    /\ pc = "loop"
    /\ day < days
    /\ pc' = "draw"
    /\ UNCHANGED <<params, policy, day, demand, inventory, on_order,
                   days_until_delivery, stockouts, inventory_levels, order_day>>

\* lines 52-55: demand draw
DrawDemand ==
    /\ pc = "draw"
    /\ \E d \in randint(DemandLow(avg_daily_demand, demand_std),
                        DemandHigh(avg_daily_demand, demand_std)) :
          demand' = d
    /\ pc' = "deliver"
    /\ UNCHANGED <<params, policy, day, inventory, on_order, days_until_delivery,
                   stockouts, inventory_levels, order_day>>

\* lines 57-59: delivery check
DeliveryCheck ==
    /\ pc = "deliver"
    /\ IF DeliveryDue(days_until_delivery)
         THEN /\ inventory' = inventory + on_order
              /\ on_order' = 0
         ELSE UNCHANGED <<inventory, on_order>>
    /\ pc' = "fulfil"
    /\ UNCHANGED <<params, policy, day, demand, days_until_delivery, stockouts,
                   inventory_levels, order_day>>

\* mutant: demand is always subtracted (backorder)
Fulfil_Backorder ==
    /\ pc = "fulfil"
    /\ inventory' = inventory - demand
    /\ stockouts' = IF inventory >= demand THEN stockouts ELSE stockouts + 1
    /\ pc' = "reorder"
    /\ UNCHANGED <<params, policy, day, demand, on_order, days_until_delivery,
                   inventory_levels, order_day>>

\* lines 61-65: demand fulfillment
Fulfil ==
    /\ pc = "fulfil"
    /\ IF CanFulfil(inventory, demand)
         THEN /\ inventory' = inventory - demand
              /\ UNCHANGED stockouts
         ELSE /\ stockouts' = stockouts + 1
              /\ inventory' = 0
    /\ pc' = "reorder"
    /\ UNCHANGED <<params, policy, day, demand, on_order, days_until_delivery,
                   inventory_levels, order_day>>

\* mutant: if instead of elif, the countdown also runs on the placement day
ReorderDecision_IfIf ==
    /\ pc = "reorder"
    /\ IF ShouldReorder(inventory, reorder_point, on_order)
         THEN /\ on_order' = order_quantity
              /\ days_until_delivery' =
                   IF lead_time > 0 THEN lead_time - 1 ELSE lead_time
              /\ order_day' = day
         ELSE /\ days_until_delivery' =
                   IF days_until_delivery > 0 THEN days_until_delivery - 1
                                              ELSE days_until_delivery
              /\ UNCHANGED <<on_order, order_day>>
    /\ pc' = "record"
    /\ UNCHANGED <<params, policy, day, demand, inventory, stockouts, inventory_levels>>

\* mutant: the countdown only runs while an order is outstanding
ReorderDecision_StaleCountdown ==
    /\ pc = "reorder"
    /\ IF ShouldReorder(inventory, reorder_point, on_order)
         THEN /\ on_order' = order_quantity
              /\ days_until_delivery' = lead_time
              /\ order_day' = day
         ELSE /\ days_until_delivery' =
                   IF days_until_delivery > 0 /\ on_order # 0
                       THEN days_until_delivery - 1
                       ELSE days_until_delivery
              /\ UNCHANGED <<on_order, order_day>>
    /\ pc' = "record"
    /\ UNCHANGED <<params, policy, day, demand, inventory, stockouts, inventory_levels>>

\* lines 67-71: reorder decision, else countdown
ReorderDecision ==
    /\ pc = "reorder"
    /\ IF ShouldReorder(inventory, reorder_point, on_order)
         THEN /\ on_order' = order_quantity
              /\ days_until_delivery' = lead_time
              /\ order_day' = day
         ELSE /\ days_until_delivery' =
                   IF days_until_delivery > 0 THEN days_until_delivery - 1
                                              ELSE days_until_delivery
              /\ UNCHANGED <<on_order, order_day>>
    /\ pc' = "record"
    /\ UNCHANGED <<params, policy, day, demand, inventory, stockouts, inventory_levels>>

\* mutant: an empty stock is not recorded
Record_SkipEmpty ==
    /\ pc = "record"
    /\ inventory_levels' = IF inventory = 0 THEN inventory_levels
                                            ELSE Append(inventory_levels, inventory)
    /\ day' = day + 1
    /\ pc' = "loop"
    /\ UNCHANGED <<params, policy, demand, inventory, on_order, days_until_delivery,
                   stockouts, order_day>>

\* line 73, and the iterator moving on
Record ==
    /\ pc = "record"
    /\ inventory_levels' = Append(inventory_levels, inventory)
    /\ day' = day + 1
    /\ pc' = "loop"
    /\ UNCHANGED <<params, policy, demand, inventory, on_order, days_until_delivery,
                   stockouts, order_day>>

\* mutant: the loop is left on the first stockout
Return_OnStockout ==
    /\ pc = "loop"
    /\ (day >= days \/ stockouts > 0)
    /\ pc' = "done"
    /\ UNCHANGED <<params, policy, day, demand, inventory, on_order,
                   days_until_delivery, stockouts, inventory_levels, order_day>>

\* line 51 exhausted, line 75: return
Return ==
    /\ pc = "loop"
    /\ day >= days
    /\ pc' = "done"
    /\ UNCHANGED <<params, policy, day, demand, inventory, on_order,
                   days_until_delivery, stockouts, inventory_levels, order_day>>

Next ==
    \/ NextDay
    \/ DrawDemand
    \/ DeliveryCheck
    \/ Fulfil
    \/ ReorderDecision
    \/ Record
    \/ Return

Spec == Init /\ [][Next]_vars

\* the interpreter runs the function to completion
FairSpec == Spec /\ WF_vars(Next)

TypeOK ==
    /\ pc \in {"loop", "draw", "deliver", "fulfil", "reorder", "record", "done"}
    /\ day \in 0 .. days
    /\ Len(inventory_levels) <= days

\* ---- reorder point (lines 38-41, 79) ----
\* Fixed point: z in 1/1000, the square root in 1/100, the result in 1/100000.

\* service levels of the model, in percent
ServiceLevels == {5, 20, 50, 80, 95, 99}

\* norm.ppf (line 39): the standard normal quantile, in 1/1000, rounded
ppf(sl) ==
    CASE sl = 5 -> -1645
      [] sl = 20 -> -842
      [] sl = 50 -> 0
      [] sl = 80 -> 842
      [] sl = 95 -> 1645
      [] sl = 99 -> 2326

\* np.sqrt (line 40), in 1/100, rounded down
sqrt(n) == CHOOSE r \in 0 .. 100 * n : r * r <= 10000 * n /\ (r + 1) * (r + 1) > 10000 * n

\* mutant: the safety stock is subtracted
calculate_reorder_point_Minus(avg_daily, lt, sl, std) ==
    (avg_daily * lt) * 100000 - ppf(sl) * std * sqrt(lt)

\* lines 38-41
calculate_reorder_point(avg_daily, lt, sl, std) ==
    LET z_score == ppf(sl)
        safety_stock == z_score * std * sqrt(lt)
    IN  (avg_daily * lt) * 100000 + safety_stock

\* the sidebar values before the main calculations; the simulation has not started
PolicyInit ==
    /\ avg_daily_demand \in 0 .. MaxAvgDemand
    /\ lead_time \in 1 .. MaxLeadTime
    /\ service_level \in ServiceLevels
    /\ demand_std \in 0 .. MaxDemandStd
    /\ rop = 0
    /\ pc = "main"
    /\ days = 0
    /\ initial_stock = 0
    /\ reorder_point = 0
    /\ order_quantity = 0
    /\ day = 0
    /\ demand = 0
    /\ inventory = 0
    /\ on_order = 0
    /\ days_until_delivery = 0
    /\ stockouts = 0
    /\ inventory_levels = << >>
    /\ order_day = -1

\* line 79
MainCalculations ==
    /\ pc = "main"
    /\ rop' = calculate_reorder_point(avg_daily_demand, lead_time,
                                      service_level, demand_std)
    /\ pc' = "button"
    /\ UNCHANGED <<params, service_level, day, demand, inventory, on_order,
                   days_until_delivery, stockouts, inventory_levels, order_day>>

PolicyNext == MainCalculations

PolicySpec == PolicyInit /\ [][PolicyNext]_vars

\* C11 as stated: the reorder point does not decrease when service_level,
\* lead_time or demand_std grows, for every service level in (0, 1).
C11_Original ==
    pc = "button" =>
        /\ \A sl \in ServiceLevels : sl >= service_level =>
              calculate_reorder_point(avg_daily_demand, lead_time, sl, demand_std) >= rop
        /\ calculate_reorder_point(avg_daily_demand, lead_time + 1,
                                   service_level, demand_std) >= rop
        /\ calculate_reorder_point(avg_daily_demand, lead_time,
                                   service_level, demand_std + 1) >= rop

\* C11 amended: the reorder point does not decrease when service_level grows;
\* it does not decrease when lead_time or demand_std grows provided
\* service_level >= 0.5, where z >= 0.
C11_Monotone ==
    pc = "button" =>
        /\ \A sl \in ServiceLevels : sl >= service_level =>
              calculate_reorder_point(avg_daily_demand, lead_time, sl, demand_std) >= rop
        /\ service_level >= 50 =>
              /\ \A lt \in lead_time .. MaxLeadTime + 1 :
                    calculate_reorder_point(avg_daily_demand, lt,
                                            service_level, demand_std) >= rop
              /\ \A std \in demand_std .. MaxDemandStd + 1 :
                    calculate_reorder_point(avg_daily_demand, lead_time,
                                            service_level, std) >= rop

\* a reorder point with a positive safety stock has been computed
C11_Witness ==
    /\ pc = "button"
    /\ service_level > 50
    /\ demand_std > 0
    /\ rop > avg_daily_demand * lead_time * 100000

\* ---- properties ----

\* positions at which the day's reorder decision has been taken
EndOfDay == {"record", "loop", "done"}

\* C1: at the end of every day on_order # 0 implies days_until_delivery > 0,
\* and the reorder decision places no new order (on_order, the countdown's
\* restart and the placement day all stay) when on_order # 0: at most one
\* order is outstanding.
C1_SingleOutstandingOrder ==
    [][ /\ (pc' \in EndOfDay /\ on_order' # 0 => days_until_delivery' > 0)
        /\ (pc = "reorder" /\ on_order # 0 =>
               /\ on_order' = on_order
               /\ order_day' = order_day
               /\ days_until_delivery' # lead_time) ]_vars

\* an order is outstanding while the stock is at or below the reorder point,
\* after a reorder decision of a later day than the placement
C1_Witness ==
    /\ pc = "record"
    /\ on_order # 0
    /\ inventory <= reorder_point
    /\ order_day < day

\* C2 as stated: with lead_time = 3 the delivery (inventory += on_order,
\* on_order := 0) of an order placed on day d happens on day d + 2.
C2_Original ==
    [][ (/\ pc = "deliver" /\ lead_time = 3 /\ on_order # 0
         /\ inventory' = inventory + on_order /\ on_order' = 0)
        => day = order_day + 2 ]_vars

\* C2 amended: with lead_time = 3 an outstanding order placed on day d is
\* delivered (inventory += on_order, on_order := 0) in the delivery check of
\* day d + 3 and of no other day.
C2_ArrivesAfterLeadTime ==
    [][ (pc = "deliver" /\ lead_time = 3 /\ on_order # 0) =>
          /\ order_day < day /\ day <= order_day + 3
          /\ (inventory' = inventory + on_order /\ on_order' = 0)
               <=> (day = order_day + 3) ]_vars

\* a positive order placed three days ago has just been taken into stock
C2_Witness ==
    /\ pc = "fulfil"
    /\ lead_time = 3
    /\ order_quantity > 0
    /\ order_day >= 0
    /\ day = order_day + 3
    /\ on_order = 0
    /\ inventory >= order_quantity

\* C3: after k days inventory_levels has k entries and 0 <= stockouts <= k;
\* on return it has days entries and 0 <= stockouts <= days.
C3_LengthAndStockoutBounds ==
    /\ (pc \in {"loop", "done"} =>
          /\ Len(inventory_levels) = day
          /\ 0 <= stockouts /\ stockouts <= day)
    /\ (pc = "done" =>
          /\ Len(inventory_levels) = days
          /\ 0 <= stockouts /\ stockouts <= days)

\* a run of three days or more has returned with some, but not only, stockouts
C3_Witness ==
    /\ pc = "done"
    /\ days >= 3
    /\ stockouts >= 1
    /\ stockouts < days
    /\ \E i \in 1 .. Len(inventory_levels) : inventory_levels[i] = 0

\* C4: the fulfillment step either serves the whole demand of the day
\* (inventory >= demand: inventory decreases by demand, stockouts unchanged)
\* or nothing of it (stockouts + 1, inventory 0); the demand it uses is the
\* value drawn that day and nothing else of the state changes, so no unmet
\* demand is carried over.
C4_LostSales ==
    [][ pc = "fulfil" =>
          /\ IF inventory >= demand
               THEN inventory' = inventory - demand /\ stockouts' = stockouts
               ELSE inventory' = 0 /\ stockouts' = stockouts + 1
          /\ demand' = demand
          /\ demand <= avg_daily_demand + 2 * demand_std
          /\ UNCHANGED <<on_order, days_until_delivery, inventory_levels>> ]_vars

\* on the first day a positive stock smaller than the demand has been dropped
C4_Witness ==
    /\ pc = "reorder"
    /\ day = 0
    /\ initial_stock > 0
    /\ demand > initial_stock
    /\ stockouts = 1
    /\ inventory = 0

\* C5: inventory is never negative, nor is any recorded level.
C5_InventoryNonNegative ==
    /\ inventory >= 0
    /\ \A i \in 1 .. Len(inventory_levels) : inventory_levels[i] >= 0

\* a stockout has emptied the stock after a delivery, and the empty stock is recorded
C5_Witness ==
    /\ pc = "loop"
    /\ order_quantity > 0
    /\ stockouts >= 1
    /\ Len(inventory_levels) >= 2
    /\ inventory_levels[Len(inventory_levels)] = 0
    /\ \E i \in 1 .. Len(inventory_levels) : inventory_levels[i] > 0

\* C6: with initial_stock = 0 and order_quantity = 0 every completed day is a
\* stockout (stockouts = days on return) and every recorded level is 0.
C6_DegeneratePolicy ==
    (initial_stock = 0 /\ order_quantity = 0) =>
        /\ \A i \in 1 .. Len(inventory_levels) : inventory_levels[i] = 0
        /\ (pc \in {"loop", "done"} => stockouts = day)
        /\ (pc = "done" => stockouts = days)

\* a degenerate run of at least two days has returned
C6_Witness ==
    /\ pc = "done"
    /\ initial_stock = 0
    /\ order_quantity = 0
    /\ days >= 2
    /\ stockouts = days

\* C8: the demand drawn is an integer within
\* [max(1, avg_daily_demand - 2*demand_std), avg_daily_demand + 2*demand_std],
\* hence at least 1.
C8_DemandRange ==
    pc = "deliver" =>
        /\ demand \in Int
        /\ demand >= 1
        /\ demand >= avg_daily_demand - 2 * demand_std
        /\ demand <= avg_daily_demand + 2 * demand_std

\* the clamp is active (avg - 2*std <= 0) and the clamped bound has been drawn
C8_Witness ==
    /\ pc = "deliver"
    /\ avg_daily_demand - 2 * demand_std <= 0
    /\ demand = 1

\* C9: with demand_std = 0 the demand drawn equals avg_daily_demand.
C9_ZeroStdDemand ==
    (demand_std = 0 /\ pc = "deliver") => demand = avg_daily_demand

\* a demand has been drawn with demand_std = 0 on a later day of a run
C9_Witness ==
    /\ pc = "deliver"
    /\ demand_std = 0
    /\ day >= 1
    /\ demand = avg_daily_demand

\* C10: every run ends, having recorded exactly days day steps, and stays
\* there: nothing ends the loop early and no step follows the last day.
C10_Terminates ==
    <>[](pc = "done" /\ day = days /\ Len(inventory_levels) = days)

\* a run over three days or more of a policy without stock or without
\* replenishment has returned with stockouts
C10_Witness ==
    /\ pc = "done"
    /\ days >= 3
    /\ (order_quantity = 0 \/ initial_stock = 0)
    /\ stockouts >= 1
    /\ Len(inventory_levels) = days

\* C12 as stated: each day runs the delivery check, then the demand draw,
\* then fulfillment, the reorder decision and the append.
C12_Original ==
    [][ /\ (pc = "loop" /\ pc' # "done" => pc' = "deliver")
        /\ (pc = "deliver" => pc' = "draw")
        /\ (pc = "draw" => pc' = "fulfil")
        /\ (pc = "fulfil" => pc' = "reorder")
        /\ (pc = "reorder" => pc' = "record")
        /\ (pc = "record" => pc' = "loop") ]_vars

\* C12 amended: each day runs (1) the demand draw, (2) the delivery check,
\* (3) fulfillment, (4) the reorder decision or countdown, (5) the append, in
\* this order, each touching only its own part of the state.
C12_StepOrder ==
    [][ /\ (pc = "loop" /\ pc' # "done" =>
               /\ pc' = "draw"
               /\ UNCHANGED <<demand, inventory, on_order, days_until_delivery,
                              stockouts, inventory_levels>>)
        /\ (pc = "draw" =>
               /\ pc' = "deliver"
               /\ UNCHANGED <<inventory, on_order, days_until_delivery,
                              stockouts, inventory_levels>>)
        /\ (pc = "deliver" =>
               /\ pc' = "fulfil"
               /\ UNCHANGED <<demand, days_until_delivery, stockouts,
                              inventory_levels>>)
        /\ (pc = "fulfil" =>
               /\ pc' = "reorder"
               /\ UNCHANGED <<demand, on_order, days_until_delivery,
                              inventory_levels>>)
        /\ (pc = "reorder" =>
               /\ pc' = "record"
               /\ UNCHANGED <<demand, inventory, stockouts, inventory_levels>>)
        /\ (pc = "record" =>
               /\ pc' = "loop"
               /\ inventory_levels' = Append(inventory_levels, inventory)
               /\ UNCHANGED <<demand, inventory, on_order, days_until_delivery,
                              stockouts>>) ]_vars

\* on a later day the demand has been drawn and then a positive order taken
\* into stock, before fulfillment
C12_Witness ==
    /\ pc = "fulfil"
    /\ day >= 1
    /\ demand >= 1
    /\ days_until_delivery = 1
    /\ on_order = 0
    /\ order_quantity > 0
    /\ inventory >= order_quantity
    /\ Len(inventory_levels) = day

\* C13: the reorder decision places an order (on_order := order_quantity,
\* days_until_delivery := lead_time, not decremented) exactly when the
\* inventory after fulfillment is <= reorder_point and on_order = 0; otherwise
\* on_order stays and days_until_delivery is decremented by 1 if > 0, else stays.
C13_ReorderDecision ==
    [][ pc = "reorder" =>
          IF inventory <= reorder_point /\ on_order = 0
            THEN /\ on_order' = order_quantity
                 /\ days_until_delivery' = lead_time
                 /\ order_day' = day
            ELSE /\ on_order' = on_order
                 /\ order_day' = order_day
                 /\ days_until_delivery' =
                      IF days_until_delivery > 0 THEN days_until_delivery - 1
                                                 ELSE days_until_delivery ]_vars

\* an order has been placed today with the stock exactly at the reorder point
C13_Witness ==
    /\ pc = "record"
    /\ order_day = day
    /\ inventory = reorder_point
    /\ on_order = order_quantity
    /\ days_until_delivery = lead_time

\* C14: an outstanding order placed on day d is taken into stock
\* (inventory += on_order, on_order := 0) in the delivery check of day
\* d + lead_time and of no other day, and the inventory grows in no other step.
C14_DeliveredAfterLeadTime ==
    [][ /\ (pc = "deliver" /\ on_order # 0 =>
               /\ order_day < day /\ day <= order_day + lead_time
               /\ (inventory' = inventory + on_order /\ on_order' = 0)
                    <=> (day = order_day + lead_time))
        /\ (inventory' > inventory =>
               /\ pc = "deliver" /\ on_order > 0
               /\ day = order_day + lead_time) ]_vars

\* a positive order with a lead time of one or two days has just arrived
C14_Witness ==
    /\ pc = "fulfil"
    /\ lead_time \in {1, 2}
    /\ order_quantity > 0
    /\ order_day >= 0
    /\ day = order_day + lead_time
    /\ on_order = 0
    /\ days_until_delivery = 1
    /\ inventory >= order_quantity

\* C15: with order_quantity > 0, at the end of every simulated day an
\* inventory at or below reorder_point has an order outstanding.
C15_ReorderCovered ==
    (/\ order_quantity > 0
     /\ pc \in EndOfDay
     /\ (pc = "record" \/ day >= 1)
     /\ inventory <= reorder_point) => on_order # 0

\* the stock is at or below the reorder point at the end of a day after the
\* one on which the order was placed
C15_Witness ==
    /\ pc = "loop"
    /\ order_quantity > 0
    /\ inventory <= reorder_point
    /\ on_order # 0
    /\ order_day + 1 < day

\* C16: the inventory, and so every recorded level, is at most
\* max(initial_stock, reorder_point + order_quantity).
C16_InventoryUpperBound ==
    /\ inventory <= max(initial_stock, reorder_point + order_quantity)
    /\ \A i \in 1 .. Len(inventory_levels) :
          inventory_levels[i] <= max(initial_stock, reorder_point + order_quantity)

\* a delivery has raised a recorded level above the initial stock
C16_Witness ==
    /\ pc = "loop"
    /\ Len(inventory_levels) >= 2
    /\ inventory_levels[Len(inventory_levels)] > initial_stock
    /\ inventory_levels[Len(inventory_levels)] > inventory_levels[1]

\* C17: with order_quantity > 0, at the end of every simulated day
\* on_order = 0 exactly when days_until_delivery = 0; and always
\* 0 <= days_until_delivery <= lead_time.
C17_CountdownMatchesOrder ==
    /\ 0 <= days_until_delivery
    /\ days_until_delivery <= lead_time
    /\ (order_quantity > 0 /\ pc \in EndOfDay) =>
          ((on_order = 0) <=> (days_until_delivery = 0))

\* a delivery was followed by a day's end without a new order: the countdown is back at 0
C17_Witness ==
    /\ pc = "record"
    /\ order_quantity > 0
    /\ order_day >= 0
    /\ day = order_day + lead_time
    /\ on_order = 0
    /\ days_until_delivery = 0
====
